---- MODULE Spec2Model ----
(***************************************************************************)
(* Model of client/network/src/protocol/generic_proto/upgrade/             *)
(* notifications.rs: the notifications handshake (upgrade_inbound,         *)
(* upgrade_outbound), the inbound substream's handshake-reply state        *)
(* machine (send_handshake, poll_next) and the outbound substream's        *)
(* bounded send queue (push_message, poll_flush, poll_close).              *)
(*                                                                         *)
(* Six specifications share the module:                                    *)
(*   SpecOut      one outbound substream over a channel whose sink answers *)
(*                (ready / pending / error) are chosen by the environment; *)
(*   SpecIn       one inbound substream over such a channel;               *)
(*   SpecHS       initiator and responder joined by two byte pipes, bytes  *)
(*                and varint length prefixes modelled as on the wire;      *)
(*   SpecNotif    the same two parties with short initial messages, the    *)
(*                initiator then sending notifications on its substream;   *)
(*   SpecInFair   SpecIn with a user that keeps polling and a channel that *)
(*                in the end is ready and completes its close;             *)
(*   SpecOutFair  an outbound substream whose producer stops pushing, with *)
(*                a user that keeps flushing and a channel that in the end *)
(*                is ready and completes its flush.                        *)
(***************************************************************************)
EXTENDS Integers, Sequences, FiniteSets, TLC

\* ------------------------------------------------------------------------
\* Program constants
\* ------------------------------------------------------------------------

MAX_HANDSHAKE_SIZE == 1024

MAX_PENDING_MESSAGES == 512

\* ------------------------------------------------------------------------
\* Bounds of the model
\* ------------------------------------------------------------------------

\* Message values an observed producer chooses from: 1..MaxMsg.
MaxMsg == 2

\* Number of push_message calls an observed producer makes.
MaxPush == 3

\* Number of send_handshake calls the user of an inbound substream makes.
MaxHsCalls == 3

\* Handshake payloads of the two parties have a length in 0..MaxLen, or
\* MAX_HANDSHAKE_SIZE, or MAX_HANDSHAKE_SIZE + 1.
MaxLen == 2

\* Number of times a pipe delivers only a part of the bytes in flight.
MaxSplit == 2

\* Number of notifications the initiator pushes after the handshake.
MaxFrames == 3

VARIABLES
  \* ---- outbound substream (NotificationsOutSubstream) ----
  messages_queue,   \* VecDeque<Vec<u8>>: messages waiting to be sent
  need_flush,       \* bool
  out_sock,         \* the Framed sink as the substream drives it
  accepted,         \* messages for which push_message returned Ok, in order
  out_last,         \* the last call made on the substream and what it returned
  observe           \* TRUE: the traffic is recorded (accepted, out_sock.handed)

VARIABLES
  \* ---- inbound substream (NotificationsInSubstream) ----
  handshake,        \* NotificationsInSubstreamHandshake: [state, msg]
  in_sock,          \* the Framed socket as the substream drives it
  in_last,          \* the last call made on the substream and what it returned
  replies           \* the payloads passed to send_handshake, call by call

VARIABLES
  \* ---- the two parties of a handshake ----
  a_pc,             \* initiator: position in upgrade_outbound
  a_msg,            \* initiator: initial_message given to NotificationsOut::new
  a_res,            \* initiator: what upgrade_outbound returned
  b_pc,             \* responder: position in upgrade_inbound, then substream
  b_res,            \* responder: what upgrade_inbound returned
  ab,               \* byte pipe initiator -> responder
  ba                \* byte pipe responder -> initiator

outVars == <<messages_queue, need_flush, out_sock, accepted, out_last, observe>>

inVars == <<handshake, in_sock, in_last, replies>>

hsVars == <<a_pc, a_msg, a_res, b_pc, b_res, ab, ba>>

vars == <<outVars, inVars, hsVars>>

\* ------------------------------------------------------------------------
\* Helpers
\* ------------------------------------------------------------------------

Min(a, b) == IF a < b THEN a ELSE b

IsPrefix(s, t) == Len(s) <= Len(t) /\ SubSeq(t, 1, Len(s)) = s

\* ------------------------------------------------------------------------
\* Values of the state
\* ------------------------------------------------------------------------

\* Framed::new: nothing handed over, nothing buffered, not closed.  `handed`
\* are the frames passed to start_send, `started` those start_send accepted,
\* `yielded` the frames its stream returned to a party of the handshake.
NewSock ==
  [handed |-> <<>>, started |-> <<>>, yielded |-> <<>>, dirty |-> FALSE,
   closed |-> FALSE]

\* The record of calls before any call was made on the outbound substream.
NoOutCall ==
  [op |-> "new", ret |-> "Ok", item |-> 0, closePolled |-> FALSE,
   by |-> "none"]

\* Placeholder for "no payload".
NoMsg == <<>>

\* The values of NotificationsInSubstreamHandshake.
NotSent == [state |-> "NotSent", msg |-> NoMsg]
PendingSend(msg) == [state |-> "PendingSend", msg |-> msg]
Close == [state |-> "Close", msg |-> NoMsg]
Sent == [state |-> "Sent", msg |-> NoMsg]

\* What a call returns: Pending, Err (Ready(Some(Err))), Eof (Ready(None)) or
\* Frame (Ready(Some(Ok(frame)))).
Ret(kind) == [kind |-> kind, frame |-> 0]
RetFrame(f) == [kind |-> "Frame", frame |-> f]

\* The record of calls before any call was made on the inbound substream.
NoInCall == [op |-> "new", from |-> "NotSent", ret |-> Ret("Ok"), ops |-> <<>>]

\* No result yet of upgrade_inbound / upgrade_outbound.  `n` is the announced
\* length once read (-1 before), `consumed` the payload bytes taken from the
\* channel, `requested` and `max` the fields of TooLarge.
NoRes ==
  [kind |-> "none", n |-> -1, msg |-> <<>>, consumed |-> 0, requested |-> 0,
   max |-> 0]

\* A byte pipe (one direction of the socket) with nothing written: `flight`
\* are bytes written and not yet arrived, `buf` bytes arrived and not yet read,
\* `written` counts every byte ever written and `taken` every byte the reader
\* took, `wclosed` / `rclosed` tell that the writing / reading end is closed,
\* `splits` counts partial deliveries.
NewPipe ==
  [flight |-> <<>>, buf |-> <<>>, written |-> 0, taken |-> 0,
   wclosed |-> FALSE, rclosed |-> FALSE, splits |-> 0]

\* ------------------------------------------------------------------------
\* Outbound substream
\* ------------------------------------------------------------------------

\* The messages a producer may push.  A recording producer picks among MaxMsg
\* values and stops after MaxPush pushes; a producer that is not recorded
\* pushes one fixed message without limit, so that a queue of
\* MAX_PENDING_MESSAGES entries stays enumerable.
Items == IF observe THEN 1..MaxMsg ELSE {0}

\* Answers of the channel's sink.
PollRes == {"Ok", "Pending", "Err"}

\* What ends the drain loop of poll_flush before the queue is empty: the
\* channel's poll_ready returned Pending or an error, or it returned Ready(Ok)
\* and the following start_send failed.
Stops == {"Pending", "ReadyErr", "SendErr"}

\* Sink::start_send on the Framed socket, as seen from the substream: the frame
\* is handed over; if accepted, it sits in the codec's buffer until a flush.
SockStartSend(sock, msg, ok) ==
  [sock EXCEPT !.handed = IF observe THEN Append(@, msg) ELSE @,
               !.started = IF observe /\ ok THEN Append(@, msg) ELSE @,
               !.dirty = IF ok THEN TRUE ELSE @]

\* Sink::poll_flush on the Framed socket completing.
SockFlushed(sock) == [sock EXCEPT !.dirty = FALSE]

\* Sink::poll_close on the Framed socket completing: flushes, then closes.
SockClosed(sock) == [sock EXCEPT !.dirty = FALSE, !.closed = TRUE]

\* Mutant of PushBack: the message is put at the front.
PushFront(q, item) == <<item>> \o q

\* VecDeque::push_back
PushBack(q, item) == Append(q, item)

\* Mutant of TakeFront: the messages are popped from the back.
TakeBack(q, n) ==
  [msgs |-> [i \in 1..n |-> q[Len(q) + 1 - i]],
   rest |-> SubSeq(q, 1, Len(q) - n)]

\* n successive VecDeque::pop_front on a queue of at least n entries: the
\* messages popped, in the order popped, and what is left.
TakeFront(q, n) ==
  [msgs |-> SubSeq(q, 1, n), rest |-> SubSeq(q, n + 1, Len(q))]

\* Mutant of QueueFull: the comparison is > instead of >=.
QueueFullOffByOne(q) == Len(q) > MAX_PENDING_MESSAGES

\* The capacity test of push_message.
QueueFull(q) == Len(q) >= MAX_PENDING_MESSAGES

\* Mutant of push_message: the message is pushed before the capacity test.
push_message_late_test(q, item) ==
  IF QueueFull(q)
    THEN [queue |-> PushBack(q, item), ret |-> "Clogged"]
    ELSE [queue |-> PushBack(q, item), ret |-> "Ok"]

\* Sink::poll_ready of the substream: Ready(Ok), whatever the state.
poll_ready(q, nf) == "Ok"

\* NotificationsOutSubstream::push_message, as a function of the queue.
push_message(q, item) ==
  IF QueueFull(q)
    THEN [queue |-> q, ret |-> "Clogged"]
    ELSE [queue |-> PushBack(q, item), ret |-> "Ok"]

\* Sink::start_send on the Framed socket for each message of `msgs` in turn,
\* every one accepted.
SockStartSendAll(sock, msgs) ==
  [sock EXCEPT !.handed = IF observe THEN @ \o msgs ELSE @,
               !.started = IF observe THEN @ \o msgs ELSE @,
               !.dirty = IF msgs # <<>> THEN TRUE ELSE @]

\* The while loop of poll_flush.  `k` is the number of iterations in which
\* the channel answers poll_ready with Ready(Ok) and accepts the start_send;
\* `stop` is the channel's answer in the iteration after those, if the queue is
\* not empty by then.  "Continue" means the loop ended with the queue empty.
\* The k successful iterations are taken in one step: each pops the front,
\* starts it into the socket and sets need_flush.  `by` names the channel
\* operation whose answer made the call return ("none": no such operation).
DrainLoop(q, nf, sock, k, stop) ==
  LET n    == Min(k, Len(q))
      t    == TakeFront(q, n)
      nf1  == IF n > 0 THEN TRUE ELSE nf
      s1   == SockStartSendAll(sock, t.msgs)
  IN
  IF t.rest = <<>>
    THEN [queue |-> t.rest, need_flush |-> nf1, sock |-> s1,
          ret |-> "Continue", by |-> "none"]
  ELSE CASE stop = "Pending" ->
              [queue |-> t.rest, need_flush |-> nf1, sock |-> s1,
               ret |-> "Pending", by |-> "poll_ready"]
         [] stop = "ReadyErr" ->
              [queue |-> t.rest, need_flush |-> nf1, sock |-> s1,
               ret |-> "Err", by |-> "poll_ready"]
         [] stop = "SendErr" ->
              \* the message is popped, start_send fails and `?` returns
              [queue |-> TakeFront(t.rest, 1).rest, need_flush |-> nf1,
               sock |-> SockStartSend(s1, TakeFront(t.rest, 1).msgs[1], FALSE),
               ret |-> "Err", by |-> "start_send"]

\* Mutant of poll_flush: a completed flush of the channel leaves need_flush
\* set and is reported as pending.
poll_flush_never_done(q, nf, sock, k, stop, fl) ==
  LET d == DrainLoop(q, nf, sock, k, stop) IN
  IF d.ret # "Continue" THEN d
  ELSE IF d.need_flush
    THEN CASE fl = "Err"     -> [d EXCEPT !.ret = "Err", !.by = "poll_flush"]
           [] fl = "Ok"      -> [d EXCEPT !.sock = SockFlushed(d.sock),
                                          !.ret = "Pending",
                                          !.by = "poll_flush"]
           [] fl = "Pending" -> [d EXCEPT !.ret = "Pending",
                                          !.by = "poll_flush"]
    ELSE [d EXCEPT !.ret = "Ok"]

\* Mutant of poll_flush: a pending flush of the channel is reported as done.
poll_flush_pending_as_ok(q, nf, sock, k, stop, fl) ==
  LET d == DrainLoop(q, nf, sock, k, stop) IN
  IF d.ret # "Continue" THEN d
  ELSE IF d.need_flush
    THEN CASE fl = "Err"     -> [d EXCEPT !.ret = "Err", !.by = "poll_flush"]
           [] fl = "Ok"      -> [d EXCEPT !.need_flush = FALSE,
                                          !.sock = SockFlushed(d.sock),
                                          !.ret = "Ok", !.by = "poll_flush"]
           [] fl = "Pending" -> [d EXCEPT !.ret = "Ok", !.by = "poll_flush"]
    ELSE [d EXCEPT !.ret = "Ok"]

\* Mutant of poll_flush: need_flush is cleared as soon as the channel's flush
\* is polled, whatever it answers.
poll_flush_clear_early(q, nf, sock, k, stop, fl) ==
  LET d == DrainLoop(q, nf, sock, k, stop) IN
  IF d.ret # "Continue" THEN d
  ELSE IF d.need_flush
    THEN CASE fl = "Err"     -> [d EXCEPT !.need_flush = FALSE, !.ret = "Err",
                                          !.by = "poll_flush"]
           [] fl = "Ok"      -> [d EXCEPT !.need_flush = FALSE,
                                          !.sock = SockFlushed(d.sock),
                                          !.ret = "Ok", !.by = "poll_flush"]
           [] fl = "Pending" -> [d EXCEPT !.need_flush = FALSE,
                                          !.ret = "Pending",
                                          !.by = "poll_flush"]
    ELSE [d EXCEPT !.ret = "Ok"]

\* Sink::poll_flush of the substream: the drain loop, then the channel's
\* flush (answer `fl`) when need_flush is set.
poll_flush(q, nf, sock, k, stop, fl) ==
  LET d == DrainLoop(q, nf, sock, k, stop) IN
  IF d.ret # "Continue" THEN d
  ELSE IF d.need_flush
    THEN CASE fl = "Err"     -> [d EXCEPT !.ret = "Err", !.by = "poll_flush"]
           [] fl = "Ok"      -> [d EXCEPT !.need_flush = FALSE,
                                          !.sock = SockFlushed(d.sock),
                                          !.ret = "Ok", !.by = "poll_flush"]
           [] fl = "Pending" -> [d EXCEPT !.ret = "Pending",
                                          !.by = "poll_flush"]
    ELSE [d EXCEPT !.ret = "Ok"]

\* Mutant of poll_close: the channel's poll_close is polled whatever the
\* flush returned.
poll_close_eager(q, nf, sock, k, stop, fl, cl) ==
  LET f == poll_flush(q, nf, sock, k, stop, fl) IN
  CASE cl = "Ok"      -> [f EXCEPT !.sock = SockClosed(f.sock), !.ret = "Ok",
                                   !.by = "poll_close"]
                           @@ [closePolled |-> TRUE]
    [] cl = "Err"     -> [f EXCEPT !.ret = "Err", !.by = "poll_close"]
                           @@ [closePolled |-> TRUE]
    [] cl = "Pending" -> [f EXCEPT !.ret = "Pending", !.by = "poll_close"]
                           @@ [closePolled |-> TRUE]

\* Sink::poll_close of the substream: ready!(poll_flush)?, then the channel's
\* poll_close (answer `cl`).
poll_close(q, nf, sock, k, stop, fl, cl) ==
  LET f == poll_flush(q, nf, sock, k, stop, fl) IN
  IF f.ret # "Ok" THEN f @@ [closePolled |-> FALSE]
  ELSE CASE cl = "Ok"      -> [f EXCEPT !.sock = SockClosed(f.sock),
                                        !.ret = "Ok", !.by = "poll_close"]
                                @@ [closePolled |-> TRUE]
         [] cl = "Err"     -> [f EXCEPT !.ret = "Err", !.by = "poll_close"]
                                @@ [closePolled |-> TRUE]
         [] cl = "Pending" -> [f EXCEPT !.ret = "Pending", !.by = "poll_close"]
                                @@ [closePolled |-> TRUE]

\* State after NotificationsOut::upgrade_outbound built the substream: an
\* empty queue, need_flush false, a fresh Framed socket.  The traffic is
\* recorded or not.  The inbound substream is not used: it stays as built.
InitOut ==
  /\ messages_queue = <<>>
  /\ need_flush = FALSE
  /\ out_sock = NewSock
  /\ accepted = <<>>
  /\ out_last = NoOutCall
  /\ observe \in BOOLEAN
  /\ handshake = NotSent
  /\ in_sock = NewSock
  /\ in_last = NoInCall
  /\ replies = <<>>
  /\ a_pc = "idle"
  /\ a_msg = <<>>
  /\ a_res = NoRes
  /\ b_pc = "idle"
  /\ b_res = NoRes
  /\ ab = NewPipe
  /\ ba = NewPipe

\* A call of push_message (or of Sink::start_send, which delegates to it).
PushMessage ==
  \E item \in Items :
    LET r == push_message(messages_queue, item) IN
    /\ observe => Len(accepted) < MaxPush
    /\ messages_queue' = r.queue
    /\ accepted' = IF observe /\ r.ret = "Ok" THEN Append(accepted, item)
                   ELSE accepted
    /\ out_last' = [op |-> "push_message", ret |-> r.ret, item |-> item,
                    closePolled |-> FALSE, by |-> "none"]
    /\ UNCHANGED <<need_flush, out_sock, observe>>
    /\ UNCHANGED <<inVars, hsVars>>

\* A call of Sink::poll_ready.
PollReady ==
  /\ out_last' = [op |-> "poll_ready",
                  ret |-> poll_ready(messages_queue, need_flush), item |-> 0,
                  closePolled |-> FALSE, by |-> "none"]
  /\ UNCHANGED <<messages_queue, need_flush, out_sock, accepted, observe>>
  /\ UNCHANGED <<inVars, hsVars>>

\* The numbers of messages the channel takes in one call before it stops
\* being ready: none, one, two, all but one, all.
DrainCounts(q) == {k \in {0, 1, 2, Len(q) - 1, Len(q)} : 0 <= k /\ k <= Len(q)}

\* The channel answers one call of poll_flush may meet: k accepted sends, then
\* `stop` if the queue is not empty by then, else the flush's answer `fl`.  The
\* answer the call never asks for is fixed, so that each distinct run of the
\* call is one choice.
FlushChoices(q) ==
  {[k |-> k, stop |-> s, fl |-> "Ok"] :
      k \in {j \in DrainCounts(q) : j < Len(q)}, s \in Stops}
    \cup {[k |-> Len(q), stop |-> "Pending", fl |-> f] : f \in PollRes}

\* A call of Sink::poll_flush.
PollFlush ==
  \E c \in FlushChoices(messages_queue) :
    LET r == poll_flush(messages_queue, need_flush, out_sock, c.k, c.stop,
                        c.fl)
    IN
    /\ messages_queue' = r.queue
    /\ need_flush' = r.need_flush
    /\ out_sock' = r.sock
    /\ out_last' = [op |-> "poll_flush", ret |-> r.ret, item |-> 0,
                    closePolled |-> FALSE, by |-> r.by]
    /\ UNCHANGED <<accepted, observe>>
    /\ UNCHANGED <<inVars, hsVars>>

\* A call of Sink::poll_close.
PollClose ==
  \E c \in FlushChoices(messages_queue), cl \in PollRes :
    LET r == poll_close(messages_queue, need_flush, out_sock, c.k, c.stop,
                        c.fl, cl)
    IN
    /\ messages_queue' = r.queue
    /\ need_flush' = r.need_flush
    /\ out_sock' = r.sock
    /\ out_last' = [op |-> "poll_close", ret |-> r.ret, item |-> 0,
                    closePolled |-> r.closePolled, by |-> r.by]
    /\ UNCHANGED <<accepted, observe>>
    /\ UNCHANGED <<inVars, hsVars>>

NextOut == PushMessage \/ PollReady \/ PollFlush \/ PollClose

SpecOut == InitOut /\ [][NextOut]_vars

\* A call of Sink::poll_flush that meets channel answers among `C`.
PollFlushAnswered(C) ==
  \E c \in C :
    LET r == poll_flush(messages_queue, need_flush, out_sock, c.k, c.stop,
                        c.fl)
    IN
    /\ messages_queue' = r.queue
    /\ need_flush' = r.need_flush
    /\ out_sock' = r.sock
    /\ out_last' = [op |-> "poll_flush", ret |-> r.ret, item |-> 0,
                    closePolled |-> FALSE, by |-> r.by]
    /\ UNCHANGED <<accepted, observe>>
    /\ UNCHANGED <<inVars, hsVars>>

\* A poll_flush that finds the channel ready for every write it attempts and
\* completing its flush without error.
PollFlushChannelFree ==
  PollFlushAnswered({c \in FlushChoices(messages_queue) :
                       c.k = Len(messages_queue) /\ c.fl = "Ok"})

\* ------------------------------------------------------------------------
\* Claims about the outbound substream (checked under SpecOut)
\* ------------------------------------------------------------------------

\* C2: in every reachable state of an outbound substream, whatever the
\* interleaving of push_message, poll_flush and poll_close and whatever the
\* channel answers, messages_queue holds at most MAX_PENDING_MESSAGES entries.
C2_QueueBounded == Len(messages_queue) <= MAX_PENDING_MESSAGES

\* C2 witness: the queue is full after a poll_flush that the channel stalled.
C2_Witness ==
  /\ Len(messages_queue) = MAX_PENDING_MESSAGES
  /\ out_last.op = "poll_flush"
  /\ out_last.ret = "Pending"

\* C3: push_message returns Clogged if and only if the queue holds
\* MAX_PENDING_MESSAGES entries when it is called; a Clogged call leaves the
\* queue as it was, and any other call returns Ok and appends the message.
\* From an empty queue the first MAX_PENDING_MESSAGES calls therefore succeed
\* and the next one is Clogged with the length still MAX_PENDING_MESSAGES.
C3_CloggedIffFull ==
  [][out_last'.op = "push_message" =>
       IF Len(messages_queue) = MAX_PENDING_MESSAGES
         THEN out_last'.ret = "Clogged" /\ messages_queue' = messages_queue
         ELSE /\ out_last'.ret = "Ok"
              /\ messages_queue' = Append(messages_queue, out_last'.item)
              /\ Len(messages_queue') = Len(messages_queue) + 1]_vars

\* C3 witness: nothing was ever handed to the channel, the queue holds
\* MAX_PENDING_MESSAGES entries and the last push_message returned Clogged.
C3_Witness ==
  /\ ~observe
  /\ ~need_flush /\ ~out_sock.dirty
  /\ Len(messages_queue) = MAX_PENDING_MESSAGES
  /\ out_last.op = "push_message"
  /\ out_last.ret = "Clogged"

\* C4: the messages handed to the channel's start_send are at every moment a
\* prefix of the messages push_message accepted, and what was accepted is
\* exactly what was handed over followed by what is still queued (nothing
\* duplicated, skipped or reordered); after a poll_flush that returns
\* Ready(Ok) everything accepted has been handed over, in order.
C4_Fifo ==
  observe =>
    /\ IsPrefix(out_sock.handed, accepted)
    /\ accepted = out_sock.handed \o messages_queue
    /\ (out_last.op = "poll_flush" /\ out_last.ret = "Ok"
          => out_sock.handed = accepted)

\* C4 witness: three messages, not all equal, were accepted and a poll_flush
\* returned Ready(Ok).
C4_Witness ==
  /\ observe
  /\ out_last.op = "poll_flush" /\ out_last.ret = "Ok"
  /\ Len(accepted) >= 3
  /\ accepted[1] # accepted[2]
  /\ out_sock.handed = accepted

\* C12: a poll_close polls the channel's close only with messages_queue empty
\* and need_flush false, and it returns Ready(Ok) only when the queue is
\* empty, everything accepted has been handed to the channel, nothing is left
\* to flush, and the channel's close has completed.
C12_FlushBeforeClose ==
  out_last.op = "poll_close" =>
    /\ (out_last.closePolled => messages_queue = <<>> /\ ~need_flush)
    /\ (out_last.ret = "Ok" =>
          /\ out_last.closePolled
          /\ messages_queue = <<>>
          /\ ~need_flush
          /\ ~out_sock.dirty
          /\ out_sock.closed
          /\ (observe => out_sock.handed = accepted))

\* C12 witness: messages were accepted and a poll_close returned Ready(Ok)
\* with the channel closed.
C12_Witness ==
  /\ observe
  /\ out_last.op = "poll_close" /\ out_last.ret = "Ok"
  /\ Len(accepted) >= 2
  /\ out_sock.closed

\* C16: in every state between calls need_flush is true exactly when the
\* channel holds a frame that start_send accepted and no completed flush has
\* covered yet.  It is false on creation; a step that sets it is a poll_flush
\* or poll_close in which start_send accepted a message; a step that clears
\* it is one in which the channel's poll_flush completed.
C16_NeedFlushExact ==
  [][/\ (need_flush <=> out_sock.dirty)
     /\ (need_flush' <=> out_sock'.dirty)
     /\ (out_last.op = "new" => ~need_flush)
     /\ (~need_flush /\ need_flush' =>
           /\ out_last'.op \in {"poll_flush", "poll_close"}
           /\ (observe => Len(out_sock'.started) > Len(out_sock.started)))
     /\ (need_flush /\ ~need_flush' =>
           /\ out_last'.op \in {"poll_flush", "poll_close"}
           /\ out_last'.by \in {"poll_flush", "poll_close"}
           /\ messages_queue' = <<>>)]_vars

\* C16 witness: a poll_flush handed messages over and returned an error of
\* the channel's flush, so that need_flush is still set with the queue empty.
C16_Witness ==
  /\ observe
  /\ out_last.op = "poll_flush"
  /\ out_last.ret = "Err" /\ out_last.by = "poll_flush"
  /\ need_flush /\ out_sock.dirty
  /\ messages_queue = <<>>
  /\ Len(out_sock.started) >= 2

\* C17: after a poll_flush that returned Ready(Ok) the queue is empty and
\* need_flush is false; after one that returned Pending, the Pending came
\* from the channel's poll_ready with the queue still non-empty, or from the
\* channel's poll_flush with the queue empty and need_flush set; and at every
\* moment each accepted message is either still queued or was handed to the
\* channel's start_send.
C17_FlushResults ==
  /\ (out_last.op = "poll_flush" /\ out_last.ret = "Ok"
        => messages_queue = <<>> /\ ~need_flush)
  /\ (out_last.op = "poll_flush" /\ out_last.ret = "Pending"
        => \/ out_last.by = "poll_ready" /\ messages_queue # <<>>
           \/ out_last.by = "poll_flush" /\ messages_queue = <<>>
                /\ need_flush)
  /\ (observe =>
        Len(out_sock.handed) + Len(messages_queue) = Len(accepted))

\* C17 witness: a poll_flush handed a message over and then returned Pending
\* because the channel was not ready for the next one.
C17_Witness ==
  /\ observe
  /\ out_last.op = "poll_flush"
  /\ out_last.ret = "Pending" /\ out_last.by = "poll_ready"
  /\ messages_queue # <<>>
  /\ out_sock.handed # <<>>

\* C18: a push_message (or Sink::start_send) changes neither the channel nor
\* need_flush; when it returns Ok the queue is the old queue with the message
\* appended at its tail, when it returns Clogged the queue is unchanged.
\* Sink::poll_ready returns Ready(Ok) in every state and changes nothing.
C18_PushLeavesChannel ==
  [][/\ (out_last'.op = "push_message" =>
           /\ out_sock' = out_sock
           /\ need_flush' = need_flush
           /\ out_last'.ret \in {"Ok", "Clogged"}
           /\ (out_last'.ret = "Ok" =>
                 /\ Len(messages_queue') = Len(messages_queue) + 1
                 /\ messages_queue'[Len(messages_queue')] = out_last'.item
                 /\ SubSeq(messages_queue', 1, Len(messages_queue))
                      = messages_queue)
           /\ (out_last'.ret = "Clogged" => messages_queue' = messages_queue))
     /\ (out_last'.op = "poll_ready" =>
           /\ out_last'.ret = "Ok"
           /\ messages_queue' = messages_queue
           /\ need_flush' = need_flush
           /\ out_sock' = out_sock)]_vars

\* C18 witness: with a frame waiting in the channel for a flush and a message
\* queued, a push_message of another message returned Ok.
C18_Witness ==
  /\ observe
  /\ out_last.op = "push_message" /\ out_last.ret = "Ok"
  /\ need_flush
  /\ out_sock.started # <<>>
  /\ Len(messages_queue) = 2
  /\ messages_queue[1] # messages_queue[2]

\* ------------------------------------------------------------------------
\* Inbound substream
\* ------------------------------------------------------------------------

\* Mutant of send_handshake: the NotSent test is missing.
send_handshake_unguarded(hs, message) == PendingSend(message)

\* NotificationsInSubstream::send_handshake, as a function of the state.
send_handshake(hs, message) ==
  IF hs.state # "NotSent" THEN hs ELSE PendingSend(message)

\* One channel operation of a call, with the arm of the match that made it
\* and what the channel answered.
ChanOp(op, arm, res) == [op |-> op, arm |-> arm, res |-> res]

\* Mutant of NotSentArm: the arm polls the socket for a frame.
NotSentArmReads(sock, ans, ops) ==
  [handshake |-> NotSent, sock |-> sock, ret |-> ans.rd,
   ops |-> Append(ops, ChanOp("poll_next", "NotSent", ans.rd.kind))]

\* The NotSent arm of poll_next: put NotSent back, return Pending.
NotSentArm(sock, ans, ops) ==
  [handshake |-> NotSent, sock |-> sock, ret |-> Ret("Pending"), ops |-> ops]

\* Mutant of PendingSendNotReadyArm: nothing is put back, the field keeps the
\* Sent that mem::replace wrote.
PendingSendNotReadyArmForgets(msg, sock, ops) ==
  [handshake |-> Sent, sock |-> sock, ret |-> Ret("Pending"), ops |-> ops]

\* Mutant of PendingSendNotReadyArm: the payload is dropped, NotSent is put
\* back.
PendingSendNotReadyArmDrops(msg, sock, ops) ==
  [handshake |-> NotSent, sock |-> sock, ret |-> Ret("Pending"), ops |-> ops]

\* The PendingSend arm of poll_next when the socket's poll_ready is Pending:
\* put PendingSend(msg) back, return Pending.
PendingSendNotReadyArm(msg, sock, ops) ==
  [handshake |-> PendingSend(msg), sock |-> sock, ret |-> Ret("Pending"),
   ops |-> ops]

\* Mutant of ClosePendingArm: the state put back asks for the reply to be
\* sent again.
ClosePendingArmResend(sock, ops) ==
  [handshake |-> PendingSend(NoMsg), sock |-> sock, ret |-> Ret("Pending"),
   ops |-> ops]

\* Mutant of ClosePendingArm: the state put back is NotSent.
ClosePendingArmReset(sock, ops) ==
  [handshake |-> NotSent, sock |-> sock, ret |-> Ret("Pending"), ops |-> ops]

\* The Close arm of poll_next when the socket's poll_close is Pending: put
\* Close back, return Pending.
ClosePendingArm(sock, ops) ==
  [handshake |-> Close, sock |-> sock, ret |-> Ret("Pending"), ops |-> ops]

\* The loop of poll_next.  `hs` is the value mem::replace took out of the
\* field (the field holds Sent until an arm writes it); `ans` gives the
\* channel's answer to each operation the call may make: rdy (poll_ready),
\* ss (start_send), cl (poll_close), rd (the socket's poll_next).
RECURSIVE PollNextLoop(_, _, _, _)
PollNextLoop(hs, sock, ans, ops) ==
  CASE hs.state = "Sent" ->
         [handshake |-> Sent, sock |-> sock, ret |-> ans.rd,
          ops |-> Append(ops, ChanOp("poll_next", "Sent", ans.rd.kind))]
    [] hs.state = "NotSent" -> NotSentArm(sock, ans, ops)
    [] hs.state = "PendingSend" ->
         LET ops1 == Append(ops, ChanOp("poll_ready", "PendingSend", ans.rdy)) IN
         IF ans.rdy = "Pending"
           THEN PendingSendNotReadyArm(hs.msg, sock, ops1)
           \* Poll::Ready(_): Ready(Ok) and Ready(Err) take the same arm
           ELSE LET ops2 == Append(ops1, ChanOp("start_send", "PendingSend",
                                                 ans.ss))
                IN
                IF ans.ss = "Ok"
                  THEN PollNextLoop(Close, SockStartSend(sock, hs.msg, TRUE),
                                    ans, ops2)
                  ELSE [handshake |-> Close,
                        sock |-> SockStartSend(sock, hs.msg, FALSE),
                        ret |-> Ret("Err"), ops |-> ops2]
    [] hs.state = "Close" ->
         LET ops1 == Append(ops, ChanOp("poll_close", "Close", ans.cl)) IN
         CASE ans.cl = "Err" ->
                \* `?` returns before any arm writes the field: it keeps the
                \* Sent that mem::replace put there
                [handshake |-> Sent, sock |-> sock, ret |-> Ret("Err"),
                 ops |-> ops1]
           [] ans.cl = "Ok" -> PollNextLoop(Sent, SockClosed(sock), ans, ops1)
           [] ans.cl = "Pending" -> ClosePendingArm(sock, ops1)

\* Stream::poll_next of the inbound substream.
poll_next(hs, sock, ans) == PollNextLoop(hs, sock, ans, <<>>)

\* What the socket's poll_next may answer.
ReadAnswers ==
  {Ret("Pending"), Ret("Err"), Ret("Eof")} \cup {RetFrame(f) : f \in 1..MaxMsg}

\* The channel's answers to the operations of one call of poll_next.
Answers ==
  [rdy : PollRes, ss : {"Ok", "Err"}, cl : PollRes, rd : ReadAnswers]

\* A call of send_handshake.
SendHandshake ==
  \E message \in 1..MaxMsg :
    /\ Len(replies) < MaxHsCalls
    /\ handshake' = send_handshake(handshake, message)
    /\ replies' = Append(replies, message)
    /\ in_last' = [op |-> "send_handshake", from |-> handshake.state,
                   ret |-> Ret("Ok"), ops |-> <<>>]
    /\ UNCHANGED in_sock
    /\ UNCHANGED <<outVars, hsVars>>

\* A call of Stream::poll_next.
PollNext ==
  \E ans \in Answers :
    LET r == poll_next(handshake, in_sock, ans) IN
    /\ handshake' = r.handshake
    /\ in_sock' = r.sock
    /\ in_last' = [op |-> "poll_next", from |-> handshake.state,
                   ret |-> r.ret, ops |-> r.ops]
    /\ UNCHANGED replies
    /\ UNCHANGED <<outVars, hsVars>>

NextIn == SendHandshake \/ PollNext

\* State after NotificationsIn::upgrade_inbound built the substream:
\* handshake NotSent over a fresh Framed socket.  The outbound substream is
\* not used: it stays as built.
InitIn ==
  /\ handshake = NotSent
  /\ in_sock = NewSock
  /\ in_last = NoInCall
  /\ replies = <<>>
  /\ messages_queue = <<>>
  /\ need_flush = FALSE
  /\ out_sock = NewSock
  /\ accepted = <<>>
  /\ out_last = NoOutCall
  /\ observe = TRUE
  /\ a_pc = "idle"
  /\ a_msg = <<>>
  /\ a_res = NoRes
  /\ b_pc = "idle"
  /\ b_res = NoRes
  /\ ab = NewPipe
  /\ ba = NewPipe

SpecIn == InitIn /\ [][NextIn]_vars

\* A call of Stream::poll_next that meets channel answers among `A`.
PollNextAnswered(A) ==
  \E ans \in A :
    LET r == poll_next(handshake, in_sock, ans) IN
    /\ handshake' = r.handshake
    /\ in_sock' = r.sock
    /\ in_last' = [op |-> "poll_next", from |-> handshake.state,
                   ret |-> r.ret, ops |-> r.ops]
    /\ UNCHANGED replies
    /\ UNCHANGED <<outVars, hsVars>>

\* A poll_next that finds the channel ready for a write.
PollNextChannelReady == PollNextAnswered({a \in Answers : a.rdy = "Ok"})

\* A poll_next that finds the channel's close completing without error.
PollNextCloseDone == PollNextAnswered({a \in Answers : a.cl = "Ok"})

\* The inbound substream whose user keeps polling it, over a channel that
\* does not stay unready for a write for ever and does not leave its close
\* pending or failing for ever.  No wake-up is relied upon: the polls are the
\* user's.
SpecInFair ==
  /\ InitIn
  /\ [][NextIn]_vars
  /\ WF_vars(PollNextChannelReady)
  /\ WF_vars(PollNextCloseDone)

\* ------------------------------------------------------------------------
\* Claims about the inbound substream (checked under SpecIn)
\* ------------------------------------------------------------------------

\* C5: only the first send_handshake call has an effect.  A call made in a
\* state other than NotSent leaves the handshake state, its pending payload
\* and the channel unchanged; a pending payload is always the first call's;
\* and every reply handed to the channel is the first call's payload.
C5_OnlyFirstCall ==
  [][/\ (in_last'.op = "send_handshake" /\ handshake.state # "NotSent"
           => handshake' = handshake /\ in_sock' = in_sock)
     /\ (handshake'.state = "PendingSend" => handshake'.msg = replies'[1])
     /\ \A i \in DOMAIN in_sock'.handed :
          in_sock'.handed[i] = replies'[1]]_vars

\* C5 witness: send_handshake was called three times, the second time with
\* another payload than the first, the last time in state Sent, and the
\* channel was handed the first payload.
C5_Witness ==
  /\ Len(replies) = 3
  /\ replies[1] # replies[2]
  /\ in_last.op = "send_handshake" /\ in_last.from = "Sent"
  /\ in_sock.handed = <<replies[1]>>

\* C6: the receiver hands at most one frame (the reply) to the channel's
\* start_send, exactly one by the time the state is Sent, and once the state
\* is Sent no call hands over anything more.
C6_OneWrite ==
  [][/\ Len(in_sock'.handed) <= 1
     /\ (handshake'.state = "Sent" => Len(in_sock'.handed) = 1)
     /\ (handshake.state = "Sent" => in_sock'.handed = in_sock.handed)]_vars

\* C6 witness: the reply was handed over, the state is Sent, and poll_next
\* was called again in that state.
C6_Witness ==
  /\ Len(in_sock.handed) = 1
  /\ handshake.state = "Sent"
  /\ in_last.op = "poll_next" /\ in_last.from = "Sent"
  /\ Len(replies) >= 2

\* C10: no frame is read or returned before the reply was handed to the
\* channel.  Every read of a frame is made in the Sent arm; a call that leaves
\* the state at NotSent, PendingSend or Close has read nothing and returns
\* Pending or an error; a call that returns a frame or the end of the stream
\* leaves the state at Sent with the reply handed over earlier; and a call
\* made in NotSent returns Pending without any channel operation.
C10_NoFrameBeforeReply ==
  in_last.op = "poll_next" =>
    /\ \A i \in DOMAIN in_last.ops :
         in_last.ops[i].op = "poll_next" => in_last.ops[i].arm = "Sent"
    /\ (handshake.state # "Sent" =>
          /\ in_last.ret.kind \in {"Pending", "Err"}
          /\ \A i \in DOMAIN in_last.ops : in_last.ops[i].op # "poll_next")
    /\ (in_last.ret.kind \in {"Frame", "Eof"} =>
          handshake.state = "Sent" /\ Len(in_sock.handed) = 1)
    /\ (in_last.from = "NotSent" =>
          /\ in_last.ret.kind = "Pending"
          /\ in_last.ops = <<>>
          /\ handshake = NotSent)

\* C10 witness: a poll_next made in PendingSend went all the way to the Sent
\* arm and returned a frame.
C10_Witness ==
  /\ in_last.op = "poll_next"
  /\ in_last.from = "PendingSend"
  /\ in_last.ret.kind = "Frame"
  /\ Len(in_last.ops) = 4

\* C13: whenever the handshake state is Sent, the channel's start_send
\* accepted the reply (the first send_handshake payload) and the channel's
\* close completed.
C13_SentMeansReplySent ==
  handshake.state = "Sent" =>
    /\ in_sock.started = <<replies[1]>>
    /\ in_sock.closed

\* C14: a poll_next in which some channel operation answered with an error
\* returns an error.
C14_ErrorsSurfaced ==
  in_last.op = "poll_next" =>
    ((\E i \in DOMAIN in_last.ops : in_last.ops[i].res = "Err")
       => in_last.ret.kind = "Err")

\* C15: the poll_next that follows a poll_next which returned an error makes
\* no operation on the channel.
C15_NoUseAfterError ==
  [][in_last.op = "poll_next" /\ in_last.ret.kind = "Err"
       /\ in_last'.op = "poll_next"
     => in_last'.ops = <<>>]_vars

\* C19 as stated: every poll_next that returns Pending leaves the handshake
\* state as it found it.
C19_PendingKeepsState ==
  [][in_last'.op = "poll_next" /\ in_last'.ret.kind = "Pending"
     => handshake' = handshake]_vars

\* C19 amended: a poll_next that returns Pending without the channel having
\* let it advance leaves the state and the channel as it found them: in
\* NotSent always (no channel operation is made), in PendingSend(p) when
\* poll_ready answered Pending (the payload p is kept, nothing is written),
\* in Close when poll_close answered Pending.  A poll_next that returns
\* Pending after the channel let it advance leaves the state it advanced to:
\* Close when the reply was started and the close is pending, Sent when the
\* close completed and the read of a frame is pending.  Sent is found after a
\* Pending return only if the call ended in the Sent arm.
C19_PendingWithoutProgress ==
  [][in_last'.op = "poll_next" /\ in_last'.ret.kind = "Pending" =>
       /\ (handshake.state = "NotSent" =>
             handshake' = handshake /\ in_sock' = in_sock
               /\ in_last'.ops = <<>>)
       /\ (handshake.state = "PendingSend" /\ in_last'.ops[1].res = "Pending"
             => handshake' = handshake /\ in_sock' = in_sock
                  /\ Len(in_last'.ops) = 1)
       /\ (handshake.state = "PendingSend" /\ in_last'.ops[1].res # "Pending"
             => handshake'.state \in {"Close", "Sent"}
                  /\ Len(in_sock'.handed) = Len(in_sock.handed) + 1)
       /\ (handshake.state = "Close" /\ in_last'.ops[1].res = "Pending"
             => handshake' = Close /\ in_sock' = in_sock
                  /\ Len(in_last'.ops) = 1)
       /\ (handshake'.state = "Sent" =>
             in_last'.ops[Len(in_last'.ops)]
               = ChanOp("poll_next", "Sent", "Pending"))]_vars

\* C19 witness: a poll_next found PendingSend with the channel not ready,
\* returned Pending and left PendingSend with the first payload.
C19_Witness ==
  /\ in_last.op = "poll_next"
  /\ in_last.from = "PendingSend"
  /\ in_last.ret.kind = "Pending"
  /\ in_last.ops = <<ChanOp("poll_ready", "PendingSend", "Pending")>>
  /\ handshake = PendingSend(replies[1])
  /\ in_sock.handed = <<>>

\* The place of a handshake state in the order NotSent, PendingSend, Close,
\* Sent.
Rank(state) ==
  CASE state = "NotSent" -> 0
    [] state = "PendingSend" -> 1
    [] state = "Close" -> 2
    [] state = "Sent" -> 3

\* C11: the handshake state observed between calls is always one of NotSent,
\* PendingSend, Close, Sent, and every step of send_handshake or poll_next
\* leaves it where it was or moves it to a later state of that order; only
\* send_handshake leaves NotSent; once Sent it stays Sent, whatever the
\* channel answers.
C11_Monotonic ==
  [][/\ handshake'.state \in {"NotSent", "PendingSend", "Close", "Sent"}
     /\ Rank(handshake'.state) >= Rank(handshake.state)
     /\ (handshake.state = "NotSent" /\ handshake'.state # "NotSent"
           => in_last'.op = "send_handshake"
              /\ handshake'.state = "PendingSend")
     /\ (handshake.state = "Sent" => handshake' = Sent)]_vars

\* C11 witness: a poll_next found the state at Close with the channel's close
\* still pending, and left it at Close.
C11_Witness ==
  /\ in_last.op = "poll_next"
  /\ in_last.from = "Close"
  /\ in_last.ret.kind = "Pending"
  /\ handshake = Close

\* C21: once send_handshake has been called, if the substream keeps being
\* polled and the channel in the end is ready for a write and completes its
\* close, the handshake state reaches Sent and stays Sent for ever; this
\* holds also when polls made in NotSent returned Pending before the call.
C21_ReplyLiveness == (replies # <<>>) ~> [](handshake.state = "Sent")

\* C21 witness: polls returned Pending while the channel was not ready and
\* while its close was pending, and the state then reached Sent with the
\* reply accepted and the channel closed.
C21_Witness ==
  /\ handshake.state = "Sent"
  /\ in_last.op = "poll_next" /\ in_last.from = "Close"
  /\ in_last.ops[1] = ChanOp("poll_close", "Close", "Ok")
  /\ in_sock.started = <<replies[1]>>
  /\ in_sock.closed

\* ------------------------------------------------------------------------
\* Handshake between two parties
\* ------------------------------------------------------------------------

\* unsigned-varint encoding of a length: base 128, least significant group
\* first, bit 7 set on every byte but the last.
RECURSIVE Varint(_)
Varint(n) ==
  IF n < 128 THEN <<n>> ELSE <<(n % 128) + 128>> \o Varint(n \div 128)

\* The number a sequence of varint bytes stands for.
RECURSIVE VarintValue(_)
VarintValue(bs) ==
  IF bs = <<>> THEN 0 ELSE (Head(bs) % 128) + 128 * VarintValue(Tail(bs))

\* Position of the first byte without continuation bit among the first ten
\* bytes (the size of usize_buffer) of `buf`; 0 if there is none.
VarintEnd(buf) ==
  LET I == {i \in 1..Min(Len(buf), 10) : buf[i] < 128} IN
  IF I = {} THEN 0 ELSE CHOOSE i \in I : \A j \in I : i <= j

\* The payload of length L the parties use: L non-zero bytes.
Bytes(L) == [i \in 1..L |-> ((i - 1) % 255) + 1]

\* The lengths of the payloads the parties use.
HsLens == (0..MaxLen) \cup {MAX_HANDSHAKE_SIZE, MAX_HANDSHAKE_SIZE + 1}

\* No byte will arrive any more on the pipe.
AtEof(pipe) == pipe.wclosed /\ pipe.flight = <<>>

\* AsyncWrite::write_all of `bytes`; a pipe whose reader is gone drops them.
PipeWrite(pipe, bytes) ==
  [pipe EXCEPT !.flight = IF pipe.rclosed THEN @ ELSE @ \o bytes,
               !.written = @ + Len(bytes)]

\* The writing end is closed / the reading end is dropped.
PipeCloseW(pipe) == [pipe EXCEPT !.wclosed = TRUE]
PipeCloseR(pipe) == [pipe EXCEPT !.rclosed = TRUE, !.flight = <<>>, !.buf = <<>>]

\* unsigned_varint::aio::read_usize: bytes are read one at a time until one
\* has no continuation bit; the end of the stream before that is an I/O error
\* (UnexpectedEof).  "Wait": the future is suspended until more bytes arrive.
read_usize(pipe) ==
  LET e == VarintEnd(pipe.buf) IN
  IF e > 0
    THEN [status |-> "Ok", n |-> VarintValue(SubSeq(pipe.buf, 1, e)),
          pipe |-> [pipe EXCEPT !.buf = SubSeq(@, e + 1, Len(@)),
                                !.taken = @ + e]]
  ELSE IF AtEof(pipe)
    THEN [status |-> "Io", n |-> 0,
          pipe |-> [pipe EXCEPT !.buf = <<>>, !.taken = @ + Len(pipe.buf)]]
  ELSE [status |-> "Wait", n |-> 0, pipe |-> pipe]

\* AsyncRead::read into a buffer of n >= 1 bytes: whatever has arrived, up to
\* n bytes; no byte at the end of the stream; suspended when nothing has
\* arrived yet.  (A read may return fewer bytes than have arrived; the
\* deliveries of the pipe already produce every such count.)
socket_read(pipe, n) ==
  IF pipe.buf # <<>>
    THEN LET k == Min(Len(pipe.buf), n) IN
         [status |-> "Ok", bytes |-> SubSeq(pipe.buf, 1, k),
          pipe |-> [pipe EXCEPT !.buf = SubSeq(@, k + 1, Len(@)),
                                !.taken = @ + k]]
  ELSE IF AtEof(pipe)
    THEN [status |-> "Ok", bytes |-> <<>>, pipe |-> pipe]
  ELSE [status |-> "Wait", bytes |-> <<>>, pipe |-> pipe]

\* vec![0u8; n] after a read wrote `bytes` at its start.
ZeroedThen(bytes, n) ==
  [i \in 1..n |-> IF i <= Len(bytes) THEN bytes[i] ELSE 0]

\* Mutant of TooLarge: the comparison is >= instead of >.
TooLargeOffByOne(n) == n >= MAX_HANDSHAKE_SIZE

\* The size test of both handshakes.
TooLarge(n) == n > MAX_HANDSHAKE_SIZE

\* Mutant of read_handshake_len: a failed read of the length counts as the
\* length 0.
read_handshake_len_lenient(pipe) ==
  LET r == read_usize(pipe) IN
  CASE r.status = "Wait" -> [kind |-> "Wait", res |-> NoRes, pipe |-> pipe]
    [] r.status = "Io" ->
         [kind |-> "Done", res |-> [NoRes EXCEPT !.kind = "Ok", !.n = 0],
          pipe |-> r.pipe]
    [] r.status = "Ok" ->
         IF TooLarge(r.n)
           THEN [kind |-> "Done",
                 res |-> [NoRes EXCEPT !.kind = "TooLarge", !.n = r.n,
                                       !.requested = r.n,
                                       !.max = MAX_HANDSHAKE_SIZE],
                 pipe |-> r.pipe]
         ELSE IF r.n = 0
           THEN [kind |-> "Done", res |-> [NoRes EXCEPT !.kind = "Ok", !.n = 0],
                 pipe |-> r.pipe]
         ELSE [kind |-> "Payload", res |-> [NoRes EXCEPT !.n = r.n],
               pipe |-> r.pipe]

\* The first half of both handshakes: read the length, refuse it if too
\* large, finish at once if it is 0 (the vector is empty, no read is made).
read_handshake_len(pipe) ==
  LET r == read_usize(pipe) IN
  CASE r.status = "Wait" -> [kind |-> "Wait", res |-> NoRes, pipe |-> pipe]
    [] r.status = "Io" ->
         [kind |-> "Done", res |-> [NoRes EXCEPT !.kind = "Io"],
          pipe |-> r.pipe]
    [] r.status = "Ok" ->
         IF TooLarge(r.n)
           THEN [kind |-> "Done",
                 res |-> [NoRes EXCEPT !.kind = "TooLarge", !.n = r.n,
                                       !.requested = r.n,
                                       !.max = MAX_HANDSHAKE_SIZE],
                 pipe |-> r.pipe]
         ELSE IF r.n = 0
           THEN [kind |-> "Done", res |-> [NoRes EXCEPT !.kind = "Ok", !.n = 0],
                 pipe |-> r.pipe]
         ELSE [kind |-> "Payload", res |-> [NoRes EXCEPT !.n = r.n],
               pipe |-> r.pipe]

\* The second half of both handshakes: one socket.read into the zeroed
\* vector, its byte count ignored, then success.
read_handshake_payload(pipe, n) ==
  LET r == socket_read(pipe, n) IN
  IF r.status = "Wait"
    THEN [kind |-> "Wait", res |-> NoRes, pipe |-> pipe]
    ELSE [kind |-> "Done",
          res |-> [NoRes EXCEPT !.kind = "Ok", !.n = n,
                                !.msg = ZeroedThen(r.bytes, n),
                                !.consumed = Len(r.bytes)],
          pipe |-> r.pipe]

\* The Framed socket's Stream::poll_next with the UviBytes codec on a pipe: a
\* whole frame if one has arrived; at the end of the stream, None if no byte
\* is left over and an error otherwise; Pending else.
frame_read(pipe) ==
  LET e == VarintEnd(pipe.buf)
      n == VarintValue(SubSeq(pipe.buf, 1, e))
  IN
  IF e > 0 /\ Len(pipe.buf) - e >= n
    THEN [ret |-> RetFrame(SubSeq(pipe.buf, e + 1, e + n)),
          pipe |-> [pipe EXCEPT !.buf = SubSeq(@, e + n + 1, Len(@)),
                                !.taken = @ + e + n]]
  ELSE IF AtEof(pipe)
    THEN [ret |-> IF pipe.buf = <<>> THEN Ret("Eof") ELSE Ret("Err"),
          pipe |-> pipe]
  ELSE [ret |-> Ret("Pending"), pipe |-> pipe]

\* The UviBytes encoding of the frames handed to a Framed socket.
RECURSIVE EncodeFrames(_)
EncodeFrames(frames) ==
  IF frames = <<>> THEN <<>>
  ELSE Varint(Len(Head(frames))) \o Head(frames) \o EncodeFrames(Tail(frames))

\* The sizes of the next delivery of a pipe: one byte, two bytes, all but one
\* byte, or everything in flight; at most MaxSplit deliveries are partial.
DeliverSizes(pipe) ==
  {k \in {1, 2, Len(pipe.flight) - 1, Len(pipe.flight)} :
     /\ 1 <= k /\ k <= Len(pipe.flight)
     /\ (k < Len(pipe.flight) => pipe.splits < MaxSplit)}

\* The pipe after k bytes in flight arrived.
Delivered(pipe, k) ==
  [pipe EXCEPT !.buf = @ \o SubSeq(pipe.flight, 1, k),
               !.flight = SubSeq(@, k + 1, Len(@)),
               !.splits = IF k < Len(pipe.flight) THEN @ + 1 ELSE @]

\* Both parties hold a freshly negotiated socket: the initiator is about to
\* run upgrade_outbound with some initial message, the responder
\* upgrade_inbound.
InitHS ==
  /\ a_pc = "write_len"
  /\ a_msg \in {Bytes(L) : L \in HsLens}
  /\ a_res = NoRes
  /\ b_pc = "read_len"
  /\ b_res = NoRes
  /\ ab = NewPipe
  /\ ba = NewPipe
  /\ handshake = NotSent
  /\ in_sock = NewSock
  /\ in_last = NoInCall
  /\ replies = <<>>
  /\ messages_queue = <<>>
  /\ need_flush = FALSE
  /\ out_sock = NewSock
  /\ accepted = <<>>
  /\ out_last = NoOutCall
  /\ observe = TRUE

\* upgrade::write_with_len_prefix, first write: the varint length.
A_WriteLen ==
  /\ a_pc = "write_len"
  /\ ab' = PipeWrite(ab, Varint(Len(a_msg)))
  /\ a_pc' = "write_payload"
  /\ UNCHANGED <<a_msg, a_res, b_pc, b_res, ba>>
  /\ UNCHANGED <<outVars, inVars>>

\* upgrade::write_with_len_prefix, second write and flush: the payload.  The
\* write may fail once the responder dropped the socket; `?` then returns the
\* I/O error and the socket is dropped.
A_WritePayload ==
  /\ a_pc = "write_payload"
  /\ \E ok \in (IF ab.rclosed THEN BOOLEAN ELSE {TRUE}) :
       IF ok
         THEN /\ ab' = PipeWrite(ab, a_msg)
              /\ a_pc' = "read_len"
              /\ UNCHANGED <<a_res, ba>>
         ELSE /\ ab' = PipeCloseW(ab)
              /\ ba' = PipeCloseR(ba)
              /\ a_pc' = "done"
              /\ a_res' = [NoRes EXCEPT !.kind = "Io"]
  /\ UNCHANGED <<a_msg, b_pc, b_res>>
  /\ UNCHANGED <<outVars, inVars>>

\* upgrade_outbound: read_usize and the size test.
A_ReadLen ==
  LET r == read_handshake_len(ba) IN
  /\ a_pc = "read_len"
  /\ r.kind # "Wait"
  /\ a_res' = r.res
  /\ IF r.kind = "Payload"
       THEN a_pc' = "read_payload" /\ ba' = r.pipe /\ ab' = ab
     ELSE IF r.res.kind = "Ok"
       THEN a_pc' = "done" /\ ba' = r.pipe /\ ab' = ab
     ELSE a_pc' = "done" /\ ba' = PipeCloseR(r.pipe) /\ ab' = PipeCloseW(ab)
  /\ UNCHANGED <<a_msg, b_pc, b_res>>
  /\ UNCHANGED <<outVars, inVars>>

\* upgrade_outbound: the read of the payload and the construction of the
\* outbound substream.
A_ReadPayload ==
  LET r == read_handshake_payload(ba, a_res.n) IN
  /\ a_pc = "read_payload"
  /\ r.kind # "Wait"
  /\ a_res' = r.res
  /\ a_pc' = "done"
  /\ ba' = r.pipe
  /\ UNCHANGED <<a_msg, b_pc, b_res, ab>>
  /\ UNCHANGED <<outVars, inVars>>

\* The initiator's future is dropped before it completed: the socket goes.
A_Abort ==
  /\ a_pc \in {"write_payload", "read_len", "read_payload"}
  /\ a_pc' = "done"
  /\ a_res' = [NoRes EXCEPT !.kind = "Aborted"]
  /\ ab' = PipeCloseW(ab)
  /\ ba' = PipeCloseR(ba)
  /\ UNCHANGED <<a_msg, b_pc, b_res>>
  /\ UNCHANGED <<outVars, inVars>>

\* upgrade_inbound: read_usize and the size test.
B_ReadLen ==
  LET r == read_handshake_len(ab) IN
  /\ b_pc = "read_len"
  /\ r.kind # "Wait"
  /\ b_res' = r.res
  /\ IF r.kind = "Payload"
       THEN b_pc' = "read_payload" /\ ab' = r.pipe /\ ba' = ba
     ELSE IF r.res.kind = "Ok"
       THEN b_pc' = "substream" /\ ab' = r.pipe /\ ba' = ba
     ELSE b_pc' = "failed" /\ ab' = PipeCloseR(r.pipe) /\ ba' = PipeCloseW(ba)
  /\ UNCHANGED <<a_pc, a_msg, a_res>>
  /\ UNCHANGED <<outVars, inVars>>

\* upgrade_inbound: the read of the payload and the construction of the
\* inbound substream (handshake NotSent).
B_ReadPayload ==
  LET r == read_handshake_payload(ab, b_res.n) IN
  /\ b_pc = "read_payload"
  /\ r.kind # "Wait"
  /\ b_res' = r.res
  /\ b_pc' = "substream"
  /\ ab' = r.pipe
  /\ UNCHANGED <<a_pc, a_msg, a_res, ba>>
  /\ UNCHANGED <<outVars, inVars>>

\* The responder accepts: send_handshake with some reply, called once.
B_SendHandshake ==
  \E L \in HsLens :
    /\ b_pc = "substream"
    /\ replies = <<>>
    /\ handshake' = send_handshake(handshake, Bytes(L))
    /\ replies' = Append(replies, Bytes(L))
    /\ in_last' = [op |-> "send_handshake", from |-> handshake.state,
                   ret |-> Ret("Ok"), ops |-> <<>>]
    /\ UNCHANGED in_sock
    /\ UNCHANGED <<outVars, hsVars>>

\* The responder polls its substream.  The socket is ready for the reply and
\* accepts it; its close completes, stays pending, or fails once the initiator
\* is gone.  A completed close puts the encoded reply on the wire and closes
\* the writing end; a frame returned is taken from the bytes that arrived.
B_Poll ==
  \E cl \in {"Ok", "Pending"} \cup (IF ba.rclosed THEN {"Err"} ELSE {}) :
    LET fr == frame_read(ab)
        r  == poll_next(handshake, in_sock,
                        [rdy |-> "Ok", ss |-> "Ok", cl |-> cl, rd |-> fr.ret])
        hasRead == \E i \in DOMAIN r.ops : r.ops[i].op = "poll_next"
    IN
    /\ b_pc = "substream"
    /\ handshake' = r.handshake
    /\ in_sock' = IF r.ret.kind = "Frame"
                    THEN [r.sock EXCEPT !.yielded = Append(@, r.ret.frame)]
                    ELSE r.sock
    /\ in_last' = [op |-> "poll_next", from |-> handshake.state,
                   ret |-> r.ret, ops |-> r.ops]
    /\ ba' = IF r.sock.closed /\ ~in_sock.closed
               THEN PipeCloseW(PipeWrite(ba, EncodeFrames(r.sock.handed)))
               ELSE ba
    /\ ab' = IF hasRead THEN fr.pipe ELSE ab
    /\ UNCHANGED <<a_pc, a_msg, a_res, b_pc, b_res, replies>>
    /\ UNCHANGED outVars

\* The i-th notification the initiator sends: one byte, its number.
Notif(i) == <<i>>

\* The frames start_send accepted in a call that took the socket from
\* `before` to `after`.
NewlyStarted(before, after) ==
  SubSeq(after.started, Len(before.started) + 1, Len(after.started))

\* The initiator, holding the substream upgrade_outbound returned, pushes a
\* notification.
A_PushMessage ==
  LET item == Notif(Len(accepted) + 1)
      r    == push_message(messages_queue, item)
  IN
  /\ a_pc = "done" /\ a_res.kind = "Ok"
  /\ ~out_sock.closed
  /\ Len(accepted) < MaxFrames
  /\ messages_queue' = r.queue
  /\ accepted' = IF r.ret = "Ok" THEN Append(accepted, item) ELSE accepted
  /\ out_last' = [op |-> "push_message", ret |-> r.ret, item |-> 0,
                  closePolled |-> FALSE, by |-> "none"]
  /\ UNCHANGED <<need_flush, out_sock, observe>>
  /\ UNCHANGED <<inVars, hsVars>>

\* The initiator flushes its substream.  The pipe takes every frame and the
\* flush completes: the frames started go on the wire in their encoding.
A_PollFlush ==
  LET r == poll_flush(messages_queue, need_flush, out_sock,
                      Len(messages_queue), "Pending", "Ok")
  IN
  /\ a_pc = "done" /\ a_res.kind = "Ok"
  /\ ~out_sock.closed
  /\ messages_queue # <<>>
  /\ messages_queue' = r.queue
  /\ need_flush' = r.need_flush
  /\ out_sock' = r.sock
  /\ out_last' = [op |-> "poll_flush", ret |-> r.ret, item |-> 0,
                  closePolled |-> FALSE, by |-> r.by]
  /\ ab' = PipeWrite(ab, EncodeFrames(NewlyStarted(out_sock, r.sock)))
  /\ UNCHANGED <<accepted, observe>>
  /\ UNCHANGED <<a_pc, a_msg, a_res, b_pc, b_res, ba>>
  /\ UNCHANGED inVars

\* The initiator closes its substream: what is queued goes on the wire, then
\* the writing end is closed.
A_PollClose ==
  LET r == poll_close(messages_queue, need_flush, out_sock,
                      Len(messages_queue), "Pending", "Ok", "Ok")
  IN
  /\ a_pc = "done" /\ a_res.kind = "Ok"
  /\ ~out_sock.closed
  /\ messages_queue' = r.queue
  /\ need_flush' = r.need_flush
  /\ out_sock' = r.sock
  /\ out_last' = [op |-> "poll_close", ret |-> r.ret, item |-> 0,
                  closePolled |-> r.closePolled, by |-> r.by]
  /\ ab' = PipeCloseW(PipeWrite(ab,
                                EncodeFrames(NewlyStarted(out_sock, r.sock))))
  /\ UNCHANGED <<accepted, observe>>
  /\ UNCHANGED <<a_pc, a_msg, a_res, b_pc, b_res, ba>>
  /\ UNCHANGED inVars

\* The responder drops its substream: the socket goes, and what the Framed
\* socket had buffered with it.
B_Drop ==
  /\ b_pc = "substream"
  /\ b_pc' = "dropped"
  /\ ba' = PipeCloseW(ba)
  /\ ab' = PipeCloseR(ab)
  /\ UNCHANGED <<a_pc, a_msg, a_res, b_res>>
  /\ UNCHANGED <<outVars, inVars>>

\* Bytes in flight arrive at the responder / at the initiator.
DeliverAB ==
  \E k \in DeliverSizes(ab) :
    /\ ab' = Delivered(ab, k)
    /\ UNCHANGED <<a_pc, a_msg, a_res, b_pc, b_res, ba>>
    /\ UNCHANGED <<outVars, inVars>>

DeliverBA ==
  \E k \in DeliverSizes(ba) :
    /\ ba' = Delivered(ba, k)
    /\ UNCHANGED <<a_pc, a_msg, a_res, b_pc, b_res, ab>>
    /\ UNCHANGED <<outVars, inVars>>

\* The steps of the initiator.
A_Step == A_WriteLen \/ A_WritePayload \/ A_ReadLen \/ A_ReadPayload

NextHS ==
  \/ A_WriteLen \/ A_WritePayload \/ A_ReadLen \/ A_ReadPayload \/ A_Abort
  \/ B_ReadLen \/ B_ReadPayload \/ B_SendHandshake \/ B_Poll \/ B_Drop
  \/ DeliverAB \/ DeliverBA

SpecHS == InitHS /\ [][NextHS]_vars

\* A handshake with a short initial message, followed by the notifications
\* the initiator sends on the substream it obtained.
InitNotif ==
  /\ a_pc = "write_len"
  /\ a_msg \in {Bytes(L) : L \in 0..MaxLen}
  /\ a_res = NoRes
  /\ b_pc = "read_len"
  /\ b_res = NoRes
  /\ ab = NewPipe
  /\ ba = NewPipe
  /\ handshake = NotSent
  /\ in_sock = NewSock
  /\ in_last = NoInCall
  /\ replies = <<>>
  /\ messages_queue = <<>>
  /\ need_flush = FALSE
  /\ out_sock = NewSock
  /\ accepted = <<>>
  /\ out_last = NoOutCall
  /\ observe = TRUE

NextNotif ==
  \/ A_WriteLen \/ A_WritePayload \/ A_ReadLen \/ A_ReadPayload \/ A_Abort
  \/ B_ReadLen \/ B_ReadPayload \/ B_SendHandshake \/ B_Poll \/ B_Drop
  \/ DeliverAB \/ DeliverBA
  \/ A_PushMessage \/ A_PollFlush \/ A_PollClose

SpecNotif == InitNotif /\ [][NextNotif]_vars

\* The outbound substream upgrade_outbound returned to the initiator (with an
\* empty reply), over a channel whose answers the environment chooses.
InitOutFair ==
  /\ messages_queue = <<>>
  /\ need_flush = FALSE
  /\ out_sock = NewSock
  /\ accepted = <<>>
  /\ out_last = NoOutCall
  /\ observe = TRUE
  /\ handshake = NotSent
  /\ in_sock = NewSock
  /\ in_last = NoInCall
  /\ replies = <<>>
  /\ a_pc = "done"
  /\ a_msg = <<>>
  /\ a_res = [NoRes EXCEPT !.kind = "Ok", !.n = 0]
  /\ b_pc = "idle"
  /\ b_res = NoRes
  /\ ab = NewPipe
  /\ ba = NewPipe

\* The initiator pushes its notifications and then stops pushing; poll_ready,
\* poll_flush and poll_close are called in any order, with any answers of the
\* channel.
NextOutFair == A_PushMessage \/ PollReady \/ PollFlush \/ PollClose

\* The outbound substream of a producer that stops pushing, whose user keeps
\* calling poll_flush, over a channel that in the end is ready for writes and
\* completes its flush.
SpecOutFair ==
  /\ InitOutFair
  /\ [][NextOutFair]_vars
  /\ WF_vars(PollFlushChannelFree)

\* ------------------------------------------------------------------------
\* Claims about the handshake (checked under SpecHS)
\* ------------------------------------------------------------------------

\* The size rule for one party: `res` is what its handshake returned so far,
\* `pipe` the pipe it reads.
SizeRule(res, pipe) ==
  res.n >= 0 =>
    IF res.n > MAX_HANDSHAKE_SIZE
      THEN /\ res.kind = "TooLarge"
           /\ res.requested = res.n
           /\ res.max = MAX_HANDSHAKE_SIZE
           /\ res.consumed = 0
           /\ pipe.taken = Len(Varint(res.n))
      ELSE res.kind # "TooLarge"

\* C1: for every announced length n read by upgrade_inbound or by
\* upgrade_outbound: if n > MAX_HANDSHAKE_SIZE the handshake fails with
\* TooLarge { requested: n, max: MAX_HANDSHAKE_SIZE } and has taken nothing
\* from the channel but the length prefix; if n <= MAX_HANDSHAKE_SIZE it does
\* not fail with TooLarge.
C1_SizeEnforced == SizeRule(a_res, ba) /\ SizeRule(b_res, ab)

\* C1 witness: the responder accepted an announced length of exactly
\* MAX_HANDSHAKE_SIZE and the initiator refused one of MAX_HANDSHAKE_SIZE + 1.
C1_Witness ==
  /\ b_res.kind = "Ok" /\ b_res.n = MAX_HANDSHAKE_SIZE
  /\ a_res.kind = "TooLarge" /\ a_res.requested = MAX_HANDSHAKE_SIZE + 1

\* The responder ended without a reply: it dropped the substream without ever
\* calling send_handshake, or its handshake failed with TooLarge.
Refused ==
  \/ b_pc = "dropped" /\ replies = <<>>
  \/ b_pc = "failed" /\ b_res.kind = "TooLarge"

\* C7: whenever the responder ended without a reply, the initiator's
\* upgrade_outbound has not succeeded and cannot: if it completed it
\* completed with an I/O error, if it has not completed it can take its next
\* step (nothing blocks it from reaching the error), and the responder has
\* put no byte on the wire.
C7_RefusalIsIoError ==
  Refused =>
    /\ a_res.kind # "Ok"
    /\ (a_pc = "done" /\ a_res.kind # "Aborted" => a_res.kind = "Io")
    /\ (a_pc # "done" => ENABLED A_Step)
    /\ ba.written = 0

\* C7 witness: the responder read the initial message, dropped the substream
\* without replying, and the initiator's upgrade_outbound returned an I/O
\* error.
C7_Witness ==
  /\ b_pc = "dropped" /\ replies = <<>>
  /\ b_res.kind = "Ok" /\ b_res.n = 2
  /\ a_pc = "done" /\ a_res.kind = "Io"

\* C8: when both handshakes succeed, upgrade_inbound returned exactly the
\* initial message given to NotificationsOut::new and upgrade_outbound
\* returned exactly the reply given to send_handshake, however the channel
\* split the bytes into deliveries.
C8_RoundTrip ==
  a_res.kind = "Ok" /\ b_res.kind = "Ok" =>
    /\ b_res.msg = a_msg
    /\ a_res.msg = replies[1]

\* C9: a handshake that read a length prefix n and succeeded has taken
\* exactly n payload bytes from the channel (none when n = 0): it never
\* succeeds with a short or zero-padded payload.
C9_ExactRead ==
  /\ (a_res.kind = "Ok" => a_res.consumed = a_res.n)
  /\ (b_res.kind = "Ok" => b_res.consumed = b_res.n)

\* C20: the frames the responder's poll_next returned are, in order and each
\* once, the first of the frames the initiator sent after its initial
\* message; a poll_next that returns the end of the stream has returned all
\* of them before; and no read of a frame returns an error (the initiator
\* only ever closes at a frame boundary).
C20_FramesInOrder ==
  /\ IsPrefix(in_sock.yielded, out_sock.started)
  /\ (in_last.op = "poll_next" /\ in_last.ret.kind = "Eof"
        => in_sock.yielded = out_sock.started)
  /\ (in_last.op = "poll_next" /\ in_last.ops # <<>>
        /\ in_last.ops[Len(in_last.ops)].op = "poll_next"
        => in_last.ret.kind # "Err")

\* ------------------------------------------------------------------------
\* Claim about the draining of the outbound queue (checked under SpecOutFair)
\* ------------------------------------------------------------------------

\* The last call was a poll_flush that returned Ready(Ok), and nothing is
\* queued or waiting for a flush.
Flushed ==
  /\ out_last.op = "poll_flush" /\ out_last.ret = "Ok"
  /\ messages_queue = <<>>
  /\ ~need_flush

\* C22: whenever a message is queued or a flush is owed, if the producer
\* stops pushing, poll_flush keeps being called and the channel in the end is
\* ready for writes and completes its flush, a poll_flush returns Ready(Ok)
\* with the queue empty and need_flush false.  Each poll_flush call hands to
\* the channel exactly the messages it removes from the queue, at most as
\* many as the queue held when it was called.
C22_DrainLiveness ==
  /\ (messages_queue # <<>> \/ need_flush) ~> Flushed
  /\ [][out_last'.op = "poll_flush" =>
         /\ Len(messages_queue') <= Len(messages_queue)
         /\ Len(out_sock'.handed) - Len(out_sock.handed)
              = Len(messages_queue) - Len(messages_queue')
         /\ Len(out_sock'.handed) - Len(out_sock.handed)
              <= Len(messages_queue)]_vars

\* C22 witness: a poll_flush completed the channel's flush and returned
\* Ready(Ok) after every notification pushed went through, the channel having
\* refused none.
C22_Witness ==
  /\ Flushed
  /\ out_last.by = "poll_flush"
  /\ Len(accepted) = MaxFrames
  /\ out_sock.started = accepted
  /\ ~out_sock.dirty /\ ~out_sock.closed

====
